---------------------------- MODULE Spec2Model ----------------------------
(***************************************************************************)
(* The three tutorial notebooks of vqls-prototype, run top to bottom:      *)
(*   "circuits"  src/unnamed/part_000  (how-to, precomputed circuits)      *)
(*   "dense"     src/unnamed/part_001  (how-to, dense matrix)              *)
(*   "runtime"   src/docs/tutorials/vqls_runtime.ipynb (runtime session)   *)
(* One action per code cell (the session cell of the runtime tutorial is   *)
(* split at the boundaries of its with-block).  The solver classes VQLS    *)
(* and VQLSLog are imported by the notebooks; their behaviour is modelled  *)
(* from the specification's description of the solve contract.             *)
(***************************************************************************)
EXTENDS Integers, Sequences, FiniteSets, TLC

\* Seeds of the pseudo-random generator explored: 0..MaxSeed.
MaxSeed == 2

\* Qubit counts for which the size / qubit-count conversions are compared: 0..MaxNqbit.
MaxNqbit == 5

Notebooks == {"circuits", "dense", "runtime"}

----------------------------------------------------------------------------
(* np.random.rand: a pseudo-random stream.  The generator state is advanced *)
(* once per drawn number; a drawn number k stands for the float k/32.       *)

NextRand(s) == (5 * s + 3) % 32

RECURSIVE Draw(_, _)
\* the generator state after k draws from state s (its k-th drawn number)
Draw(s, k) == IF k = 0 THEN s ELSE Draw(NextRand(s), k - 1)

RandVectorShort(s, n) == [i \in 1..(n - 1) |-> Draw(s, i)]

\* np.random.rand(n)
RandVector(s, n) == [i \in 1..n |-> Draw(s, i)]

\* np.random.rand(r, c), filled row by row
RandMatrix(s, r, c) == [i \in 1..r |-> [j \in 1..c |-> Draw(s, (i - 1) * c + j)]]

\* A.T
Transpose(M) == [i \in 1..Len(M[1]) |-> [j \in 1..Len(M) |-> M[j][i]]]

\* elementwise A + B
MatAdd(M, N) == [i \in 1..Len(M) |-> [j \in 1..Len(M[i]) |-> M[i][j] + N[i][j]]]

SymmetrizeNoTranspose(R) == MatAdd(R, R)

\* A = A + A.T  (runtime tutorial)
Symmetrize(R) == MatAdd(R, Transpose(R))

\* the dense how-to notebook keeps the generated matrix: "# A = A + A.T"
KeepAsGenerated(R) == R

RECURSIVE Pow2(_)
Pow2(n) == IF n = 0 THEN 1 ELSE 2 * Pow2(n - 1)

\* int(np.log(size)): the natural logarithm taken for the binary one
LnFloor(n) == IF n < 3 THEN 0 ELSE IF n < 8 THEN 1 ELSE IF n < 21 THEN 2 ELSE 3

RECURSIVE Log2Floor(_)
\* int(np.log2(size)) for size >= 1
Log2Floor(n) == IF n <= 1 THEN 0 ELSE 1 + Log2Floor(n \div 2)

----------------------------------------------------------------------------
(* Quantum circuits: a qubit count and a gate list in order of application. *)
(* A state is an amplitude vector indexed by basis state 0..2^n-1, qubit q   *)
(* being bit q of the index.  The Hadamard gate is kept unnormalised         *)
(* (sqrt(2) * H), so amplitudes stay integers.                               *)

QuantumCircuit(n) == [nqubits |-> n, gates |-> <<>>]

AddGate(c, name, qs) == [c EXCEPT !.gates = Append(@, [name |-> name, qubits |-> qs])]

Bit(i, q) == (i \div Pow2(q)) % 2

Flip(i, q) == IF Bit(i, q) = 1 THEN i - Pow2(q) ELSE i + Pow2(q)

ApplyGate(g, psi) ==
  [i \in DOMAIN psi |->
     CASE g.name = "x"  -> psi[Flip(i, g.qubits[1])]
       [] g.name = "h"  -> IF Bit(i, g.qubits[1]) = 0
                           THEN psi[i] + psi[Flip(i, g.qubits[1])]
                           ELSE psi[Flip(i, g.qubits[1])] - psi[i]
       [] g.name = "cx" -> IF Bit(i, g.qubits[1]) = 1
                           THEN psi[Flip(i, g.qubits[2])]
                           ELSE psi[i]]

RECURSIVE ApplyInOrder(_, _)
\* the gates applied first to last: what running the circuit does
ApplyInOrder(gs, psi) ==
  IF gs = <<>> THEN psi ELSE ApplyInOrder(Tail(gs), ApplyGate(Head(gs), psi))

RunCircuit(c, psi) == ApplyInOrder(c.gates, psi)

RECURSIVE ApplyProduct(_, _)
\* the operator product O1 O2 ... Ok applied to psi: Ok acts first
ApplyProduct(ops, psi) ==
  IF ops = <<>> THEN psi ELSE ApplyGate(Head(ops), ApplyProduct(Tail(ops), psi))

BasisState(n, k) == [i \in 0..(Pow2(n) - 1) |-> IF i = k THEN 1 ELSE 0]

Half == [num |-> 1, den |-> 2]

\* the matrix documented in Step 1 of the precomputed-circuit notebook:
\* A = 1/2 (X_0 X_1 CNOT(0,1) + H_0 X_1 CNOT(0,1))
DocumentedMatrix ==
  << [coeff |-> Half,
      ops   |-> << [name |-> "x", qubits |-> <<0>>],
                   [name |-> "x", qubits |-> <<1>>],
                   [name |-> "cx", qubits |-> <<0, 1>>] >>],
     [coeff |-> Half,
      ops   |-> << [name |-> "h", qubits |-> <<0>>],
                   [name |-> "x", qubits |-> <<1>>],
                   [name |-> "cx", qubits |-> <<0, 1>>] >>] >>

----------------------------------------------------------------------------
(* The notebooks' own constants.                                            *)

\* part_000: nqbit = 2
CircuitsNqbit == 2
\* part_001: size = 4
DenseSize == 4
\* vqls_runtime: nqbit = 2
RuntimeNqbit == 2

\* the runtime tutorial with the solve call placed after the with-block
ProgramSolveAfterSession(n) ==
  CASE n = "circuits" -> << "circuits", "solver", "solve" >>
    [] n = "dense"    -> << "system", "empty", "ansatz", "solver", "solve",
                            "plot_cost", "statevector", "plot_accuracy", "empty" >>
    [] n = "runtime"  -> << "imports", "system", "rhs", "classical", "ansatz",
                            "service", "session_open", "solver", "session_close",
                            "solve", "plot_accuracy", "plot_cost", "empty" >>

\* the dense how-to notebook without its last plotting cell
ProgramNoAccuracyPlot(n) ==
  CASE n = "circuits" -> << "circuits", "solver", "solve" >>
    [] n = "dense"    -> << "system", "empty", "ansatz", "solver", "solve",
                            "plot_cost", "statevector", "empty" >>
    [] n = "runtime"  -> << "imports", "system", "rhs", "classical", "ansatz",
                            "service", "session_open", "solver", "solve",
                            "session_close", "plot_accuracy", "plot_cost", "empty" >>

\* the runtime tutorial creating the logger and the solver again after solve
ProgramLoggerRecreated(n) ==
  CASE n = "circuits" -> << "circuits", "solver", "solve" >>
    [] n = "dense"    -> << "system", "empty", "ansatz", "solver", "solve",
                            "plot_cost", "statevector", "plot_accuracy", "empty" >>
    [] n = "runtime"  -> << "imports", "system", "rhs", "classical", "ansatz",
                            "service", "session_open", "solver", "solve", "solver",
                            "session_close", "plot_accuracy", "plot_cost", "empty" >>

\* the dense how-to notebook with its accuracy plot cell moved before the cell
\* that imports matplotlib and the cell that builds vqls_solution
ProgramAccuracyFirst(n) ==
  CASE n = "circuits" -> << "circuits", "solver", "solve" >>
    [] n = "dense"    -> << "system", "empty", "ansatz", "solver", "solve",
                            "plot_accuracy", "plot_cost", "statevector", "empty" >>
    [] n = "runtime"  -> << "imports", "system", "rhs", "classical", "ansatz",
                            "service", "session_open", "solver", "solve",
                            "session_close", "plot_accuracy", "plot_cost", "empty" >>

\* The code cells of each notebook, top to bottom (markdown cells do nothing).
\* The session cell of the runtime tutorial is the four steps session_open,
\* solver, solve, session_close.
Program(n) ==
  CASE n = "circuits" -> << "circuits", "solver", "solve" >>
    [] n = "dense"    -> << "system", "empty", "ansatz", "solver", "solve",
                            "plot_cost", "statevector", "plot_accuracy", "empty" >>
    [] n = "runtime"  -> << "imports", "system", "rhs", "classical", "ansatz",
                            "service", "session_open", "solver", "solve",
                            "session_close", "plot_accuracy", "plot_cost", "empty" >>

\* the names a step reads from the kernel's namespace
Reads(n, s) ==
  CASE n = "circuits" /\ s = "solver"       -> {"nqbit"}
    [] n = "circuits" /\ s = "solve"        -> {"vqls", "qc1", "qc2", "rhs"}
    [] n = "dense" /\ s = "ansatz"          -> {"np", "size"}
    [] n = "dense" /\ s = "solver"          -> {"ansatz"}
    [] n = "dense" /\ s = "solve"           -> {"vqls", "A", "b"}
    [] n = "dense" /\ s = "plot_cost"       -> {"vqls"}
    [] n = "dense" /\ s = "statevector"     -> {"np", "res"}
    [] n = "dense" /\ s = "plot_accuracy"   -> {"np", "A", "b", "plt", "vqls_solution"}
    [] n = "runtime" /\ s = "system"        -> {"np"}
    [] n = "runtime" /\ s = "rhs"           -> {"np", "size"}
    [] n = "runtime" /\ s = "classical"     -> {"np", "A", "b"}
    [] n = "runtime" /\ s = "ansatz"        -> {"RealAmplitudes", "nqbit"}
    [] n = "runtime" /\ s = "service"       -> {"QiskitRuntimeService"}
    [] n = "runtime" /\ s = "session_open"  -> {"Session", "service", "backend"}
    [] n = "runtime" /\ s = "solver"        -> {"Options", "Estimator", "session", "VQLSLog",
                                                "VQLS", "ansatz", "COBYLA"}
    [] n = "runtime" /\ s = "solve"         -> {"vqls", "A", "b"}
    [] n = "runtime" /\ s = "session_close" -> {"session"}
    [] n = "runtime" /\ s = "plot_accuracy" -> {"classical_solution", "np", "res"}
    [] n = "runtime" /\ s = "plot_cost"     -> {"plt", "log"}
    [] OTHER -> {}

\* the names a step binds (imports and assignments)
Binds(n, s) ==
  CASE n = "circuits" /\ s = "circuits"     -> {"QuantumCircuit", "nqbit", "qc1", "qc2", "rhs"}
    [] n = "circuits" /\ s = "solver"       -> {"VQLS", "VQLSLog", "Estimator", "opt",
                                                "RealAmplitudes", "ansatz", "estimator",
                                                "log", "vqls"}
    [] n = "circuits" /\ s = "solve"        -> {"solution"}
    [] n = "dense" /\ s = "system"          -> {"np", "size", "A", "b"}
    [] n = "dense" /\ s = "ansatz"          -> {"RealAmplitudes", "nqbit", "ansatz"}
    [] n = "dense" /\ s = "solver"          -> {"VQLS", "VQLSLog", "Estimator", "opt",
                                                "estimator", "log", "options", "vqls"}
    [] n = "dense" /\ s = "solve"           -> {"res"}
    [] n = "dense" /\ s = "plot_cost"       -> {"plt"}
    [] n = "dense" /\ s = "statevector"     -> {"Statevector", "vqls_solution"}
    [] n = "dense" /\ s = "plot_accuracy"   -> {"ref_solution"}
    [] n = "runtime" /\ s = "imports"       -> {"VQLS", "VQLSLog", "QiskitRuntimeService",
                                                "Estimator", "Session", "Options",
                                                "RealAmplitudes", "COBYLA", "np"}
    [] n = "runtime" /\ s = "system"        -> {"nqbit", "size", "A"}
    [] n = "runtime" /\ s = "rhs"           -> {"b"}
    [] n = "runtime" /\ s = "classical"     -> {"NumPyLinearSolver", "classical_solution"}
    [] n = "runtime" /\ s = "ansatz"        -> {"ansatz"}
    [] n = "runtime" /\ s = "service"       -> {"service", "backend"}
    [] n = "runtime" /\ s = "session_open"  -> {"session"}
    [] n = "runtime" /\ s = "solver"        -> {"options", "estimator", "log", "vqls"}
    [] n = "runtime" /\ s = "solve"         -> {"res"}
    [] n = "runtime" /\ s = "plot_accuracy" -> {"Statevector", "plt", "ref_solution",
                                                "vqls_solution"}
    [] OTHER -> {}

\* every notebook configured with the runtime tutorial's larger cap
OptimizerSameCap(n) ==
  IF n = "runtime" THEN [name |-> "COBYLA", maxiter |-> 250]
                   ELSE [name |-> "CG", maxiter |-> 250]

\* the optimizer each notebook configures
Optimizer(n) ==
  IF n = "runtime" THEN [name |-> "COBYLA", maxiter |-> 250]
                   ELSE [name |-> "CG", maxiter |-> 200]

\* no notebook passes a callback
SolverCallbackOmitted(n) == "none"

\* the callback argument of the VQLS(...) call: only the runtime tutorial has one
SolverCallback(n) == IF n = "runtime" THEN "log.update" ELSE "none"

\* the options argument of the VQLS(...) call
SolverOptions(n) ==
  IF n = "dense" THEN [matrix_decomposition |-> "pauli", verbose |-> TRUE]
                 ELSE [matrix_decomposition |-> "default", verbose |-> FALSE]

\* the estimator primitive handed to VQLS
SolverEstimator(n) == IF n = "runtime" THEN "session" ELSE "local"

----------------------------------------------------------------------------
(* The imported solver classes, modelled from the specification.            *)

\* VQLSLog(values, parameters)
VQLSLog(vals, params) == [values |-> vals, parameters |-> params]

\* VQLSLog.update: one cost value (and its parameters) appended
LogUpdate(l, cost, params) ==
  [values |-> Append(l.values, cost), parameters |-> Append(l.parameters, params)]

\* VQLS(estimator, ansatz, optimizer, callback=..., options=...)
VQLS(est, ans, optim, cb, opts) ==
  [estimator |-> est, ansatz |-> ans, optimizer |-> optim, callback |-> cb,
   options |-> opts, logger |-> VQLSLog(<<>>, <<>>)]

\* the cost the optimizer evaluates at iteration k: an abstract decreasing value
CostAt(optim, k) == optim.maxiter - k

\* the optimized state a returning solve may hold, for an ansatz on n qubits:
\* a direction and its opposite (the global sign is not determined)
ResultStates(n) ==
  { [i \in 1..Pow2(n) |-> sgn * (IF i = 1 THEN 1 ELSE 0)] : sgn \in {1, -1} }

----------------------------------------------------------------------------
VARIABLES
  nb,            \* the notebook being run
  pc,            \* index of the next step of Program(nb)
  status,        \* "running", "solving", "raised", "failed", "done"
  rng,           \* state of the pseudo-random generator
  bound,         \* the names bound in the kernel's namespace
  nqbit, size,   \* Python variables nqbit, size (0: not yet bound)
  A, b,          \* the dense matrix and right-hand side (<<>>: not yet bound)
  qc,            \* the circuits qc1, qc2, rhs of the precomputed-circuit notebook
  ansatz,        \* the RealAmplitudes ansatz
  log,           \* the logger object bound to the name log
  vqls,          \* the solver object bound to the name vqls
  session,       \* the runtime session: "none", "open", "closed"
  iter,          \* optimizer iterations performed by the current or last solve
  solveCalls,    \* number of calls of vqls.solve so far
  solveArgs,     \* the arguments of the last solve call
  res,           \* the result object (res, or solution in part_000)
  reference,     \* classical_solution / ref_solution
  vqls_solution, \* real part of the state vector of res.state
  plots,         \* the plots rendered so far, in order
  trace          \* the steps executed so far, in order

vars == << nb, pc, status, rng, bound, nqbit, size, A, b, qc, ansatz, log, vqls,
           session, iter, solveCalls, solveArgs, res, reference, vqls_solution,
           plots, trace >>

NoSolver == VQLS("none", [nqubits |-> 0, reps |-> 0], [name |-> "none", maxiter |-> 0],
                 "none", [matrix_decomposition |-> "default", verbose |-> FALSE])

NoArgs == [form |-> "none", matrix |-> <<>>, rhs |-> <<>>]

NoReference == [matrix |-> <<>>, rhs |-> <<>>, normalized |-> FALSE]

Init ==
  /\ nb \in Notebooks
  /\ rng \in 0..MaxSeed
  /\ pc = 1
  /\ status = "running"
  /\ bound = {}
  /\ nqbit = 0
  /\ size = 0
  /\ A = <<>>
  /\ b = <<>>
  /\ qc = [qc1 |-> QuantumCircuit(0), qc2 |-> QuantumCircuit(0), rhs |-> QuantumCircuit(0)]
  /\ ansatz = [nqubits |-> 0, reps |-> 0]
  /\ log = VQLSLog(<<>>, <<>>)
  /\ vqls = NoSolver
  /\ session = "none"
  /\ iter = 0
  /\ solveCalls = 0
  /\ solveArgs = NoArgs
  /\ res = [state |-> <<>>]
  /\ reference = NoReference
  /\ vqls_solution = <<>>
  /\ plots = <<>>
  /\ trace = <<>>

\* the kernel is about to run step s, and the names the step reads are bound
AtStep(s) ==
  /\ status = "running"
  /\ pc <= Len(Program(nb))
  /\ Program(nb)[pc] = s
  /\ Reads(nb, s) \subseteq bound

\* step s has run to its end
Completes(s) ==
  /\ pc' = pc + 1
  /\ bound' = bound \cup Binds(nb, s)
  /\ trace' = Append(trace, s)

----------------------------------------------------------------------------
(* Cells that prepare the linear system and the solver.                     *)

\* vqls_runtime, first cell: the imports
ImportLibraries ==
  /\ AtStep("imports")
  /\ Completes("imports")
  /\ UNCHANGED << nb, status, rng, nqbit, size, A, b, qc, ansatz, log, vqls, session,
                  iter, solveCalls, solveArgs, res, reference, vqls_solution, plots >>

\* part_000: qc1, qc2 and rhs
CreateCircuits ==
  /\ AtStep("circuits")
  /\ nqbit' = CircuitsNqbit
  /\ qc' = [qc1 |-> AddGate(AddGate(AddGate(QuantumCircuit(nqbit'),
                                            "x", <<0>>), "x", <<1>>), "cx", <<0, 1>>),
            qc2 |-> AddGate(AddGate(AddGate(QuantumCircuit(nqbit'),
                                            "h", <<0>>), "x", <<1>>), "cx", <<0, 1>>),
            rhs |-> AddGate(AddGate(QuantumCircuit(nqbit'), "h", <<0>>), "h", <<1>>)]
  /\ Completes("circuits")
  /\ UNCHANGED << nb, status, rng, size, A, b, ansatz, log, vqls, session, iter,
                  solveCalls, solveArgs, res, reference, vqls_solution, plots >>

\* part_001: size = 4; A = rand(size, size); "# A = A + A.T"; b = rand(size)
CreateSystemDense ==
  /\ nb = "dense"
  /\ AtStep("system")
  /\ size' = DenseSize
  /\ A' = KeepAsGenerated(RandMatrix(rng, size', size'))
  /\ b' = RandVector(Draw(rng, size' * size'), size')
  /\ rng' = Draw(rng, size' * size' + size')
  /\ Completes("system")
  /\ UNCHANGED << nb, status, nqbit, qc, ansatz, log, vqls, session, iter, solveCalls,
                  solveArgs, res, reference, vqls_solution, plots >>

\* vqls_runtime: nqbit = 2; size = 2**nqbit; A = rand(size, size); A = A + A.T
CreateSystemRuntime ==
  /\ nb = "runtime"
  /\ AtStep("system")
  /\ nqbit' = RuntimeNqbit
  /\ size' = Pow2(nqbit')
  /\ A' = Symmetrize(RandMatrix(rng, size', size'))
  /\ rng' = Draw(rng, size' * size')
  /\ Completes("system")
  /\ UNCHANGED << nb, status, b, qc, ansatz, log, vqls, session, iter, solveCalls,
                  solveArgs, res, reference, vqls_solution, plots >>

\* vqls_runtime: b = rand(size)
CreateRhs ==
  /\ AtStep("rhs")
  /\ b' = RandVector(rng, size)
  /\ rng' = Draw(rng, size)
  /\ Completes("rhs")
  /\ UNCHANGED << nb, status, nqbit, size, A, qc, ansatz, log, vqls, session, iter,
                  solveCalls, solveArgs, res, reference, vqls_solution, plots >>

\* vqls_runtime: classical_solution = NumPyLinearSolver().solve(A, b / norm(b))
ClassicalSolve ==
  /\ AtStep("classical")
  /\ reference' = [matrix |-> A, rhs |-> b, normalized |-> FALSE]
  /\ Completes("classical")
  /\ UNCHANGED << nb, status, rng, nqbit, size, A, b, qc, ansatz, log, vqls, session,
                  iter, solveCalls, solveArgs, res, vqls_solution, plots >>

\* part_001: nqbit = int(np.log2(size)); ansatz = RealAmplitudes(nqbit, ..., reps=3)
\* vqls_runtime: ansatz = RealAmplitudes(nqbit, ..., reps=3)
DefineAnsatz ==
  /\ AtStep("ansatz")
  /\ nqbit' = IF nb = "dense" THEN Log2Floor(size) ELSE nqbit
  /\ ansatz' = [nqubits |-> nqbit', reps |-> 3]
  /\ Completes("ansatz")
  /\ UNCHANGED << nb, status, rng, size, A, b, qc, log, vqls, session, iter, solveCalls,
                  solveArgs, res, reference, vqls_solution, plots >>

\* vqls_runtime: service = QiskitRuntimeService(); backend = "simulator_statevector"
StartService ==
  /\ AtStep("service")
  /\ Completes("service")
  /\ UNCHANGED << nb, status, rng, nqbit, size, A, b, qc, ansatz, log, vqls, session,
                  iter, solveCalls, solveArgs, res, reference, vqls_solution, plots >>

\* vqls_runtime: with Session(service=service, backend=backend) as session:
OpenSession ==
  /\ AtStep("session_open")
  /\ session' = "open"
  /\ Completes("session_open")
  /\ UNCHANGED << nb, status, rng, nqbit, size, A, b, qc, ansatz, log, vqls, iter,
                  solveCalls, solveArgs, res, reference, vqls_solution, plots >>

\* the cell that creates the estimator, the logger and the solver; in part_000
\* it also creates the ansatz
CreateSolver ==
  /\ AtStep("solver")
  /\ ansatz' = IF nb = "circuits" THEN [nqubits |-> nqbit, reps |-> 3] ELSE ansatz
  /\ log' = VQLSLog(<<>>, <<>>)
  /\ vqls' = VQLS(SolverEstimator(nb), ansatz', Optimizer(nb), SolverCallback(nb),
                  SolverOptions(nb))
  /\ Completes("solver")
  /\ UNCHANGED << nb, status, rng, nqbit, size, A, b, qc, session, iter, solveCalls,
                  solveArgs, res, reference, vqls_solution, plots >>

----------------------------------------------------------------------------
(* The solve call.  It is blocking: the kernel stays at the solve step       *)
(* (status "solving") until the call returns or raises.                      *)

\* the arguments of the notebook's solve call
SolveArgs(n) ==
  IF n = "circuits"
  THEN [form |-> "circuits",
        matrix |-> << << Half, qc.qc1 >>, << Half, qc.qc2 >> >>,
        rhs |-> qc.rhs]
  ELSE [form |-> "dense", matrix |-> A, rhs |-> b]

\* vqls.solve(...) is entered
SolveCall ==
  /\ AtStep("solve")
  /\ status' = "solving"
  /\ iter' = 0
  /\ solveCalls' = solveCalls + 1
  /\ solveArgs' = SolveArgs(nb)
  /\ UNCHANGED << nb, pc, rng, bound, nqbit, size, A, b, qc, ansatz, log, vqls, session,
                  res, reference, vqls_solution, plots, trace >>

\* one optimizer iteration: the cost is evaluated and reported to the solver's
\* own logger and to the callback, when one was given
Iterate ==
  /\ status = "solving"
  /\ iter < vqls.optimizer.maxiter
  /\ iter' = iter + 1
  /\ vqls' = [vqls EXCEPT !.logger = LogUpdate(@, CostAt(vqls.optimizer, iter'), iter')]
  /\ log' = IF vqls.callback = "log.update"
            THEN LogUpdate(log, CostAt(vqls.optimizer, iter'), iter')
            ELSE log
  /\ UNCHANGED << nb, pc, status, rng, bound, nqbit, size, A, b, qc, ansatz, session,
                  solveCalls, solveArgs, res, reference, vqls_solution, plots, trace >>

\* the optimizer stops (converged, or at its iteration cap) and solve returns
SolveReturn ==
  /\ status = "solving"
  /\ \E st \in ResultStates(vqls.ansatz.nqubits) : res' = [state |-> st]
  /\ status' = "running"
  /\ Completes("solve")
  /\ UNCHANGED << nb, rng, nqbit, size, A, b, qc, ansatz, log, vqls, session, iter,
                  solveCalls, solveArgs, reference, vqls_solution, plots >>

\* solve raises (a backend or solver failure); no notebook catches it
SolveRaise ==
  /\ status = "solving"
  /\ status' = "raised"
  /\ UNCHANGED << nb, pc, rng, bound, nqbit, size, A, b, qc, ansatz, log, vqls, session,
                  iter, solveCalls, solveArgs, res, reference, vqls_solution, plots,
                  trace >>

\* the session opened without a with-block: the exception leaves it open
ExitSessionSkipped ==
  /\ status = "raised"
  /\ session = "open"
  /\ status' = "failed"
  /\ UNCHANGED << nb, pc, rng, bound, nqbit, size, A, b, qc, ansatz, log, vqls, session,
                  iter, solveCalls, solveArgs, res, reference, vqls_solution, plots,
                  trace >>

\* the with-block is left by the exception: the session is closed on the way out
ExitSessionOnError ==
  /\ status = "raised"
  /\ session = "open"
  /\ session' = "closed"
  /\ UNCHANGED << nb, pc, status, rng, bound, nqbit, size, A, b, qc, ansatz, log, vqls,
                  iter, solveCalls, solveArgs, res, reference, vqls_solution, plots,
                  trace >>

\* the exception is swallowed and the failing cell is run again
StopOnErrorRetried ==
  /\ status = "raised"
  /\ session # "open"
  /\ status' = "running"
  /\ UNCHANGED << nb, pc, rng, bound, nqbit, size, A, b, qc, ansatz, log, vqls, session,
                  iter, solveCalls, solveArgs, res, reference, vqls_solution, plots,
                  trace >>

\* the exception reaches the kernel: the run stops at the failing cell
StopOnError ==
  /\ status = "raised"
  /\ session # "open"
  /\ status' = "failed"
  /\ UNCHANGED << nb, pc, rng, bound, nqbit, size, A, b, qc, ansatz, log, vqls, session,
                  iter, solveCalls, solveArgs, res, reference, vqls_solution, plots,
                  trace >>

\* the with-block is left normally: the session is closed
CloseSession ==
  /\ AtStep("session_close")
  /\ session' = "closed"
  /\ Completes("session_close")
  /\ UNCHANGED << nb, status, rng, nqbit, size, A, b, qc, ansatz, log, vqls, iter,
                  solveCalls, solveArgs, res, reference, vqls_solution, plots >>

----------------------------------------------------------------------------
(* Cells that follow the solve call.                                        *)

Negate(v) == [i \in DOMAIN v |-> 0 - v[i]]

\* part_001: plt.semilogy(vqls.logger.values)
PlotCostDense ==
  /\ nb = "dense"
  /\ AtStep("plot_cost")
  /\ plots' = Append(plots, [kind |-> "cost", scale |-> "semilogy", x |-> <<>>,
                             y |-> vqls.logger.values])
  /\ Completes("plot_cost")
  /\ UNCHANGED << nb, status, rng, nqbit, size, A, b, qc, ansatz, log, vqls, session,
                  iter, solveCalls, solveArgs, res, reference, vqls_solution >>

\* vqls_runtime: plt.plot(log.values)
PlotCostRuntime ==
  /\ nb = "runtime"
  /\ AtStep("plot_cost")
  /\ plots' = Append(plots, [kind |-> "cost", scale |-> "linear", x |-> <<>>,
                             y |-> log.values])
  /\ Completes("plot_cost")
  /\ UNCHANGED << nb, status, rng, nqbit, size, A, b, qc, ansatz, log, vqls, session,
                  iter, solveCalls, solveArgs, res, reference, vqls_solution >>

\* part_001: vqls_solution = np.real(Statevector(res.state).data)
ExtractStatevector ==
  /\ AtStep("statevector")
  /\ vqls_solution' = res.state
  /\ Completes("statevector")
  /\ UNCHANGED << nb, status, rng, nqbit, size, A, b, qc, ansatz, log, vqls, session,
                  iter, solveCalls, solveArgs, res, reference, plots >>

\* the reference computed for the symmetrised matrix A + A.T
PlotAccuracyDenseSymmetrized ==
  /\ nb = "dense"
  /\ AtStep("plot_accuracy")
  /\ reference' = [matrix |-> Symmetrize(A), rhs |-> b, normalized |-> TRUE]
  /\ plots' = Append(plots, [kind |-> "accuracy", scale |-> "linear", x |-> reference',
                             y |-> vqls_solution])
  /\ Completes("plot_accuracy")
  /\ UNCHANGED << nb, status, rng, nqbit, size, A, b, qc, ansatz, log, vqls, session,
                  iter, solveCalls, solveArgs, res, vqls_solution >>

\* part_001: ref_solution = np.linalg.solve(A, b / norm(b)), normalised;
\* plt.scatter(ref_solution, vqls_solution)
PlotAccuracyDense ==
  /\ nb = "dense"
  /\ AtStep("plot_accuracy")
  /\ reference' = [matrix |-> A, rhs |-> b, normalized |-> TRUE]
  /\ plots' = Append(plots, [kind |-> "accuracy", scale |-> "linear", x |-> reference',
                             y |-> vqls_solution])
  /\ Completes("plot_accuracy")
  /\ UNCHANGED << nb, status, rng, nqbit, size, A, b, qc, ansatz, log, vqls, session,
                  iter, solveCalls, solveArgs, res, vqls_solution >>

\* the runtime tutorial plotting vqls_solution without the sign change
PlotAccuracyRuntimeUnsigned ==
  /\ nb = "runtime"
  /\ AtStep("plot_accuracy")
  /\ reference' = [reference EXCEPT !.normalized = TRUE]
  /\ vqls_solution' = res.state
  /\ plots' = Append(plots, [kind |-> "accuracy", scale |-> "linear", x |-> reference',
                             y |-> vqls_solution'])
  /\ Completes("plot_accuracy")
  /\ UNCHANGED << nb, status, rng, nqbit, size, A, b, qc, ansatz, log, vqls, session,
                  iter, solveCalls, solveArgs, res >>

\* vqls_runtime: ref_solution = classical_solution.state, normalised;
\* vqls_solution = np.real(Statevector(res.state).data);
\* plt.scatter(ref_solution, -vqls_solution)
PlotAccuracyRuntime ==
  /\ nb = "runtime"
  /\ AtStep("plot_accuracy")
  /\ reference' = [reference EXCEPT !.normalized = TRUE]
  /\ vqls_solution' = res.state
  /\ plots' = Append(plots, [kind |-> "accuracy", scale |-> "linear", x |-> reference',
                             y |-> Negate(vqls_solution')])
  /\ Completes("plot_accuracy")
  /\ UNCHANGED << nb, status, rng, nqbit, size, A, b, qc, ansatz, log, vqls, session,
                  iter, solveCalls, solveArgs, res >>

\* a code cell with no source
RunEmptyCell ==
  /\ AtStep("empty")
  /\ Completes("empty")
  /\ UNCHANGED << nb, status, rng, nqbit, size, A, b, qc, ansatz, log, vqls, session,
                  iter, solveCalls, solveArgs, res, reference, vqls_solution, plots >>

\* the last cell has run
Finish ==
  /\ status = "running"
  /\ pc > Len(Program(nb))
  /\ status' = "done"
  /\ UNCHANGED << nb, pc, rng, bound, nqbit, size, A, b, qc, ansatz, log, vqls, session,
                  iter, solveCalls, solveArgs, res, reference, vqls_solution, plots,
                  trace >>

Next ==
  \/ ImportLibraries
  \/ CreateCircuits
  \/ CreateSystemDense
  \/ CreateSystemRuntime
  \/ CreateRhs
  \/ ClassicalSolve
  \/ DefineAnsatz
  \/ StartService
  \/ OpenSession
  \/ CreateSolver
  \/ SolveCall
  \/ Iterate
  \/ SolveReturn
  \/ SolveRaise
  \/ ExitSessionOnError
  \/ StopOnError
  \/ CloseSession
  \/ PlotCostDense
  \/ PlotCostRuntime
  \/ ExtractStatevector
  \/ PlotAccuracyDense
  \/ PlotAccuracyRuntime
  \/ RunEmptyCell
  \/ Finish

Spec == Init /\ [][Next]_vars

\* the interpreter keeps running: a step that can be taken is taken
FairSpec == Spec /\ WF_vars(Next)

----------------------------------------------------------------------------
(* Properties.                                                              *)

Performed(s) == \E i \in 1..Len(trace) : trace[i] = s

Positions(S) == {i \in 1..Len(trace) : trace[i] \in S}

IsSymmetric(M) == \A i \in 1..Len(M) : \A j \in 1..Len(M) : M[i][j] = M[j][i]

SolveEnded == Performed("solve") \/ status \in {"raised", "failed"}

\* C1 (as stated): in the runtime tutorial solve runs only while the session is
\* open, the session is closed only after solve has returned, and solve is
\* called at most once.
C1_SessionProtocol ==
  nb = "runtime" =>
    /\ (status = "solving" => session = "open")
    /\ (solveCalls >= 1 => session # "none")
    /\ (session = "closed" => Performed("solve"))
    /\ solveCalls <= 1

\* C1 (amended): in the runtime tutorial solve runs only while the session is
\* open, the session is closed only after the one solve call has ended (it has
\* returned, or it has raised), and solve is called at most once.
C1_SessionProtocolAmended ==
  nb = "runtime" =>
    /\ (status = "solving" => session = "open")
    /\ (solveCalls >= 1 => session # "none")
    /\ (session = "closed" => solveCalls = 1 /\ status # "solving" /\ SolveEnded)
    /\ solveCalls <= 1

\* the session was opened, solve iterated and returned, the session was closed
C1_Witness ==
  /\ nb = "runtime"
  /\ session = "closed"
  /\ Performed("solve")
  /\ iter >= 1
  /\ solveCalls = 1

\* C2: in the runtime tutorial, which passes log.update as callback, after solve
\* has returned log.values holds exactly one cost value per optimizer iteration,
\* in iteration order.
C2_OneValuePerIteration ==
  (nb = "runtime" /\ Performed("solve")) =>
    /\ Len(log.values) = iter
    /\ Len(log.parameters) = iter
    /\ \A i \in 1..iter : /\ log.values[i] = CostAt(vqls.optimizer, i)
                          /\ log.parameters[i] = i

\* solve has returned after several iterations, the callback being log.update
C2_Witness ==
  /\ nb = "runtime"
  /\ vqls.callback = "log.update"
  /\ Performed("solve")
  /\ iter >= 3
  /\ Len(log.values) = iter

\* C3 (as stated): in every notebook that creates a logger with VQLSLog([], []),
\* that logger is the solver's progress callback, so it records the progress.
C3_LoggerIsCallback ==
  ("log" \in bound /\ "vqls" \in bound) =>
    /\ vqls.callback = "log.update"
    /\ (Performed("solve") => Len(log.values) = iter)

\* C4 (as stated): in the dense-matrix how-to notebook the cost values plotted in
\* Step 5 are the values of the logger log created in Step 3.
C4_PlottedIsLog ==
  (nb = "dense" /\ Performed("plot_cost")) =>
    \E i \in 1..Len(plots) : plots[i].kind = "cost" /\ plots[i].y = log.values

\* C5 (as stated): in the dense-matrix how-to notebook the matrix passed to solve
\* is symmetric.
C5_DenseMatrixSymmetric ==
  (nb = "dense" /\ solveCalls >= 1) => IsSymmetric(solveArgs.matrix)

\* C6: in the runtime tutorial the matrix A = R + R^T, and so the matrix passed
\* to solve, is symmetric: A[i][j] = A[j][i] for all i, j.
C6_RuntimeMatrixSymmetric ==
  nb = "runtime" =>
    /\ ("A" \in bound => Len(A) = size /\ IsSymmetric(A))
    /\ (solveCalls >= 1 => solveArgs.matrix = A /\ IsSymmetric(solveArgs.matrix))

\* solve was called with a symmetric matrix whose entries are not all equal
C6_Witness ==
  /\ nb = "runtime"
  /\ solveCalls = 1
  /\ Len(solveArgs.matrix) = 4
  /\ solveArgs.matrix[1][2] # solveArgs.matrix[1][3]
  /\ solveArgs.matrix[1][2] # solveArgs.matrix[1][1]

BuildSteps == {"circuits", "system", "rhs"}

PlotSteps == {"plot_cost", "plot_accuracy"}

\* build, then one solver construction, then one solve call, in this order
BuildSolverSolveInOrder ==
  /\ Positions(BuildSteps) # {}
  /\ Cardinality(Positions({"solver"})) = 1
  /\ Cardinality(Positions({"solve"})) = 1
  /\ solveCalls = 1
  /\ \A i \in Positions(BuildSteps) : \A j \in Positions({"solver"}) : i < j
  /\ \A j \in Positions({"solver"}) : \A k \in Positions({"solve"}) : j < k

\* a convergence plot and an accuracy plot are rendered, after solve
BothPlotsAfterSolve ==
  /\ Performed("plot_cost")
  /\ Performed("plot_accuracy")
  /\ \A k \in Positions({"solve"}) : \A l \in Positions(PlotSteps) : k < l
  /\ \E i \in 1..Len(plots) : plots[i].kind = "cost"
  /\ \E i \in 1..Len(plots) : plots[i].kind = "accuracy"

\* C7 (as stated): every notebook run to its end has built the system,
\* constructed one solver, called solve exactly once and rendered a convergence
\* and an accuracy plot, in this order.
C7_FourSteps ==
  status = "done" => (BuildSolverSolveInOrder /\ BothPlotsAfterSolve)

\* C7 (amended): every notebook run to its end has built the system, constructed
\* one solver and called solve exactly once, in this order; the two dense-matrix
\* notebooks then render a convergence and an accuracy plot, and the
\* precomputed-circuit notebook ends with the solve call and renders no plot.
C7_FourStepsAmended ==
  status = "done" =>
    /\ BuildSolverSolveInOrder
    /\ (nb # "circuits" => BothPlotsAfterSolve /\ Len(plots) = 2)
    /\ (nb = "circuits" => Positions(PlotSteps) = {} /\ plots = <<>>)

\* the dense how-to notebook has run to its end and rendered its two plots
C7_Witness ==
  /\ status = "done"
  /\ nb = "dense"
  /\ Len(plots) = 2
  /\ iter >= 1

\* C8: every solve call ends, and the iterations it performs, hence the logged
\* cost values, never exceed the optimizer's cap: 200 (CG, how-to notebooks),
\* 250 (COBYLA, runtime tutorial).
C8_SolveEndsWithinCap ==
  /\ [](/\ iter <= (IF nb = "runtime" THEN 250 ELSE 200)
        /\ Len(vqls.logger.values) <= (IF nb = "runtime" THEN 250 ELSE 200)
        /\ Len(log.values) <= (IF nb = "runtime" THEN 250 ELSE 200))
  /\ ((status = "solving") ~> (status # "solving"))

\* a solve call of a how-to notebook has returned at the cap of 200 iterations
C8_Witness ==
  /\ nb = "dense"
  /\ Performed("solve")
  /\ iter = 200
  /\ Len(vqls.logger.values) = 200

\* C9: every solve call passes either a dense size x size matrix with a vector of
\* length size, or a list of (coefficient, circuit) pairs with a right-hand-side
\* circuit, all circuits on the same number of qubits; never a mix of the two.
C9_WellFormedSolveArgs ==
  solveCalls >= 1 =>
    \/ /\ solveArgs.form = "dense"
       /\ nb \in {"dense", "runtime"}
       /\ size >= 1
       /\ Len(solveArgs.matrix) = size
       /\ \A i \in 1..Len(solveArgs.matrix) : Len(solveArgs.matrix[i]) = size
       /\ Len(solveArgs.rhs) = size
    \/ /\ solveArgs.form = "circuits"
       /\ nb = "circuits"
       /\ Len(solveArgs.matrix) >= 1
       /\ \A i \in 1..Len(solveArgs.matrix) :
            /\ Len(solveArgs.matrix[i]) = 2
            /\ solveArgs.matrix[i][1].den # 0
            /\ solveArgs.matrix[i][2].nqubits = solveArgs.rhs.nqubits
       /\ solveArgs.rhs.nqubits = nqbit
       /\ nqbit >= 1

\* the dense how-to notebook has called solve with a 4 x 4 matrix and a
\* right-hand side of length 4
C9_Witness ==
  /\ nb = "dense"
  /\ solveCalls = 1
  /\ Len(solveArgs.matrix) = 4
  /\ Len(solveArgs.rhs) = 4

\* C10 (as stated): the weighted list passed to solve is the documented matrix
\* 1/2 (X_0 X_1 CNOT(0,1) + H_0 X_1 CNOT(0,1)): both coefficients are 1/2 and
\* qc1 maps every basis state as the operator product X_0 X_1 CNOT(0,1) does.
C10_CircuitIsDocumentedOperator ==
  (nb = "circuits" /\ solveCalls >= 1) =>
    /\ Len(solveArgs.matrix) = Len(DocumentedMatrix)
    /\ \A i \in 1..Len(solveArgs.matrix) :
         solveArgs.matrix[i][1] = DocumentedMatrix[i].coeff
    /\ \A k \in 0..(Pow2(nqbit) - 1) :
         RunCircuit(solveArgs.matrix[1][2], BasisState(nqbit, k))
           = ApplyProduct(DocumentedMatrix[1].ops, BasisState(nqbit, k))


SolveFailed == status \in {"raised", "failed"}

\* C12: a failing solve call is never retried nor caught: solve is invoked at
\* most once in a run, and once it has failed the run stays at the solve cell
\* with no result bound, no plot rendered, and takes no further cell.
C12_NoRetryAfterFailure ==
  /\ [](/\ solveCalls <= 1
        /\ SolveFailed =>
             /\ solveCalls = 1
             /\ pc <= Len(Program(nb))
             /\ Program(nb)[pc] = "solve"
             /\ ~Performed("solve")
             /\ res = [state |-> <<>>]
             /\ bound \cap {"res", "solution", "vqls_solution", "ref_solution"} = {}
             /\ plots = <<>>)
  /\ [][SolveFailed => /\ SolveFailed'
                       /\ solveCalls' = solveCalls
                       /\ pc' = pc
                       /\ res' = res
                       /\ plots' = plots]_vars
  /\ [][status = "failed" => UNCHANGED vars]_vars

\* a solve call has failed after some iterations and the run has stopped
C12_Witness ==
  /\ status = "failed"
  /\ solveCalls = 1
  /\ iter >= 1

\* C13: every invocation of the logger callback happens while solve is running;
\* once solve has returned log.values no longer changes, and the cell of the
\* runtime tutorial that plots log.values plots the whole trajectory, one value
\* per iteration performed.
C13_CallbackOnlyDuringSolve ==
  /\ [][log.values' # log.values => (status = "solving" /\ status' = "solving")]_vars
  /\ [][Performed("solve") => log.values' = log.values]_vars
  /\ [](nb = "runtime" /\ Performed("plot_cost") =>
          \E i \in 1..Len(plots) : /\ plots[i].kind = "cost"
                                   /\ plots[i].y = log.values
                                   /\ Len(plots[i].y) = iter)

\* the runtime tutorial has plotted a trajectory of several cost values
C13_Witness ==
  /\ nb = "runtime"
  /\ Performed("plot_cost")
  /\ iter >= 2
  /\ plots[Len(plots)].y = log.values
  /\ Len(log.values) = iter

\* t is s, or s with one element added at its end
SameOrOneAppended(s, t) ==
  \/ t = s
  \/ Len(t) = Len(s) + 1 /\ SubSeq(t, 1, Len(s)) = s

\* C14: the logger is append-only: VQLSLog([], []) creates it empty, each
\* callback invocation adds exactly one cost value at its end, and no recorded
\* value is ever removed, reordered or overwritten.
C14_LoggerAppendOnly ==
  /\ []((Performed("solver") /\ solveCalls = 0) =>
          (log.values = <<>> /\ log.parameters = <<>>))
  /\ [][/\ SameOrOneAppended(log.values, log.values')
        /\ SameOrOneAppended(log.parameters, log.parameters')
        /\ Len(log.values') >= Len(log.values)]_vars
  /\ [][(iter' = iter + 1 /\ vqls.callback = "log.update") =>
          /\ Len(log.values') = Len(log.values) + 1
          /\ SubSeq(log.values', 1, Len(log.values)) = log.values]_vars

\* the callback has been invoked several times on the logger of the runtime
\* tutorial
C14_Witness ==
  /\ nb = "runtime"
  /\ status = "solving"
  /\ Len(log.values) >= 3
  /\ Len(log.values) = iter

\* C15: in the notebooks that pass a dense matrix the ansatz acts on nqbit
\* qubits with 2^nqbit = size, whether size is computed from nqbit (2**nqbit)
\* or nqbit from size (int(log2(size))), for every size that is a power of two.
C15_QubitsMatchSize ==
  /\ (nb \in {"dense", "runtime"} /\ "ansatz" \in bound) =>
       /\ ansatz.nqubits = nqbit
       /\ Pow2(ansatz.nqubits) = size
  /\ (nb \in {"dense", "runtime"} /\ solveCalls >= 1) =>
       Pow2(vqls.ansatz.nqubits) = Len(solveArgs.matrix)
  /\ \A k \in 0..MaxNqbit : /\ Log2Floor(Pow2(k)) = k
                            /\ Pow2(Log2Floor(Pow2(k))) = Pow2(k)

\* the dense how-to notebook has derived 2 qubits from size 4
C15_Witness ==
  /\ nb = "dense"
  /\ "ansatz" \in bound
  /\ size = 4
  /\ ansatz.nqubits = 2

\* the names bound by the steps that have run to their end
BoundByCompletedSteps == UNION {Binds(nb, trace[i]) : i \in 1..Len(trace)}

\* C16: in each notebook run top to bottom, every name the next cell reads has
\* been bound by an earlier cell that completed; the names bound are exactly
\* those of completed cells, so a failed solve leaves res unbound.
C16_NamesBoundBeforeRead ==
  /\ (status = "running" /\ pc <= Len(Program(nb))) =>
       Reads(nb, Program(nb)[pc]) \subseteq bound
  /\ (status = "solving") => Reads(nb, "solve") \subseteq bound
  /\ bound = BoundByCompletedSteps
  /\ SolveFailed => bound \cap {"res", "solution"} = {}

\* the dense how-to notebook is about to run its accuracy plot cell, which reads
\* names bound by four different earlier cells
C16_Witness ==
  /\ nb = "dense"
  /\ status = "running"
  /\ pc <= Len(Program(nb))
  /\ Program(nb)[pc] = "plot_accuracy"
  /\ {"np", "A", "b", "plt", "vqls_solution"} \subseteq bound

C18_SessionClosedOnEveryExit ==
  /\ [](nb = "runtime" =>
          /\ (status \in {"failed", "done"} => session # "open")
          /\ (status = "failed" => /\ session = "closed"
                                   /\ "res" \notin bound
                                   /\ res = [state |-> <<>>])
          /\ (Performed("session_close") => session = "closed")
          /\ (session = "open" =>
                Program(nb)[pc] \in {"solver", "solve", "session_close"}))
  /\ ((session = "open") ~> (session = "closed"))

\* solve has raised inside the session block and the run has stopped
C18_Witness ==
  /\ nb = "runtime"
  /\ status = "failed"
  /\ session = "closed"
  /\ iter >= 1
  /\ "res" \notin bound

\* the names through which a cell reaches the session: the session itself, the
\* estimator created on it, and the solver that holds this estimator
SessionNames == {"session", "estimator", "vqls"}

\* C19: in the runtime tutorial nothing uses the session or its estimator once
\* the session is closed: solve is not running, the cells that remain read none
\* of the names that reach the session, no further optimizer iteration (the
\* only backend call) is made, and the session is not reopened.
C19_NoUseAfterClose ==
  /\ []((nb = "runtime" /\ session = "closed") =>
          /\ status # "solving"
          /\ \A i \in pc..Len(Program(nb)) :
               (status = "running") =>
                 Reads(nb, Program(nb)[i]) \cap SessionNames = {})
  /\ [][(nb = "runtime" /\ session = "closed") =>
          /\ iter' = iter
          /\ vqls' = vqls
          /\ solveCalls' = solveCalls
          /\ session' = "closed"]_vars

\* the cells after the session block have run with the session closed
C19_Witness ==
  /\ nb = "runtime"
  /\ session = "closed"
  /\ Performed("plot_accuracy")
  /\ Performed("plot_cost")
  /\ Len(plots) = 2
  /\ iter >= 1

\* the accuracy plot rendered so far (a notebook renders at most one)
AccuracyPlot == plots[CHOOSE i \in 1..Len(plots) : plots[i].kind = "accuracy"]

\* the unit-normalised reference solution of A x = b/|b| for the system that
\* was passed to solve
ReferenceOfSolvedSystem ==
  [matrix |-> solveArgs.matrix, rhs |-> solveArgs.rhs, normalized |-> TRUE]

\* C20 (as stated): both dense-matrix notebooks plot the unit-normalised
\* reference solution against the real part of the VQLS state vector with the
\* same sign convention, so the same result gives the same plotted points.
C20_SameAccuracyPlot ==
  (nb \in {"dense", "runtime"} /\ Performed("plot_accuracy")) =>
    /\ AccuracyPlot.x = ReferenceOfSolvedSystem
    /\ vqls_solution = res.state
    /\ AccuracyPlot.y = vqls_solution

\* C20 (amended): both dense-matrix notebooks plot the unit-normalised reference
\* solution of the solved system against the real part of the VQLS state
\* vector, but with opposite signs: the how-to notebook plots vqls_solution,
\* the runtime tutorial plots -vqls_solution.
C20_AccuracyPlotUpToSign ==
  (nb \in {"dense", "runtime"} /\ Performed("plot_accuracy")) =>
    /\ AccuracyPlot.x = ReferenceOfSolvedSystem
    /\ vqls_solution = res.state
    /\ (nb = "dense" => AccuracyPlot.y = vqls_solution)
    /\ (nb = "runtime" => AccuracyPlot.y = Negate(vqls_solution))
    /\ Negate(vqls_solution) # vqls_solution

\* the runtime tutorial has plotted the negated state vector of a result
C20_Witness ==
  /\ nb = "runtime"
  /\ Performed("plot_accuracy")
  /\ res.state[1] = 1
  /\ AccuracyPlot.y[1] = -1
============================================================================
